---- MODULE Spec2Model ----
(***************************************************************************)
(* Table-driven replay policy (src/agent.py) and the simulation loop that  *)
(* drives a policy against the environment                                  *)
(* (src/space_navigator/simulator/simulator.py).                            *)
(*                                                                         *)
(* Epochs are mjd2000 scalars; they are modelled as integer multiples of a *)
(* tick of 0.0005 day, so that every comparison and addition the code      *)
(* performs on them is exact.  An action is the 5-vector                   *)
(* <<dVx, dVy, dVz, epoch, time_to_req>>, a table row is the 4-vector      *)
(* <<epoch, dVx, dVy, dVz>> (numpy index k is TLA+ index k + 1).           *)
(***************************************************************************)
EXTENDS Integers, Sequences, FiniteSets, TLC

\* Bounds of the model.
MaxEpoch == 2       \* epochs of rows, polls, start_time, end_time: 0..MaxEpoch
MaxRows == 3        \* rows of the action table in the policy harness
MaxCalls == 3       \* get_action calls in the policy harness
MaxRunRows == 2     \* rows of the action table in a simulator session
MaxStep == 2        \* largest step passed to Simulator.run
MaxRuns == 2        \* Simulator.run calls on one Simulator
MaxUpdateStep == 2  \* largest integer update_r_p_step of a Simulator

\* Agent.get_action: time_to_req = 0.001 mjd2000, i.e. 2 ticks of 0.0005.
TIME_TO_REQ == 2

VARIABLES
    agentKind,      \* which class of src/agent.py is instantiated
    table,          \* TableAgent.table
    table0,         \* the table as loaded by TableAgent.__init__ (history)
    hist,           \* the get_action calls made so far (history)
    start_time,     \* Simulator.start_time
    end_time,       \* Simulator.end_time
    curr_time,      \* Simulator.curr_time
    step,           \* argument of Simulator.run
    iteration,      \* local of Simulator.run
    pc,             \* position of the caller in Simulator.run
    next_action,    \* environment: epoch of the next policy poll
    fuel,           \* environment: fuel remaining
    err,            \* result of env.act in the latest iteration
    propagated,     \* number of env.propagate_forward calls (history)
    logged,         \* number of log_iteration entries (history)
    warnings,       \* number of log_bad_action entries (history)
    iterCalls,      \* calls made by the latest iteration, in order (history)
    gate,           \* epochs compared by the latest decision check (history)
    update_r_p_step, \* Simulator.update_r_p_step: <<>> for None, <<n>> for n
    visualize,      \* argument of Simulator.run
    time_arr,       \* Simulator.time_arr
    prob_arr,       \* Simulator.prob_arr
    fuel_cons_arr,  \* Simulator.fuel_cons_arr
    reward_arr,     \* Simulator.reward_arr
    r,              \* local of Simulator.run: the reward last captured
    result,         \* value returned by Simulator.run
    runs,           \* number of Simulator.run calls made (history)
    acted,          \* action passed to env.act in the latest poll (history)
    lastWarning,    \* latest log_bad_action entry (history)
    lastLog,        \* latest log_iteration entry (history)
    posLogs         \* number of log_protected_position entries (history)

vars == <<agentKind, table, table0, hist, start_time, end_time, curr_time,
          step, iteration, pc, next_action, fuel, err, propagated, logged,
          warnings, iterCalls, gate, update_r_p_step, visualize, time_arr,
          prob_arr, fuel_cons_arr, reward_arr, r, result, runs, acted,
          lastWarning, lastLog, posLogs>>

agentVars == <<agentKind, table, table0, hist>>
seriesVars == <<time_arr, prob_arr, fuel_cons_arr, reward_arr>>
simVars == <<start_time, end_time, curr_time, step, iteration, pc,
             next_action, fuel, err, propagated, logged, warnings,
             iterCalls, gate, update_r_p_step, visualize, time_arr,
             prob_arr, fuel_cons_arr, reward_arr, r, result, runs, acted,
             lastWarning, lastLog, posLogs>>

Abs(x) == IF x < 0 THEN -x ELSE x

Epochs == 0..MaxEpoch

(***************************************************************************)
(* src/agent.py                                                            *)
(***************************************************************************)

\* The deltas of the i-th row of a loaded table: pairwise different between
\* rows and between components, never all zero.
RowDeltas(i) == <<i, 0, -i>>

\* Tables of n rows with any epochs, in any order.
TablesOfLen(n) ==
    { [i \in 1..n |-> <<ep[i], RowDeltas(i)[1], RowDeltas(i)[2], RowDeltas(i)[3]>>] :
        ep \in [1..n -> Epochs] }

Tables(maxRows) == UNION { TablesOfLen(n) : n \in 0..maxRows }

DefaultActionSwapped(epoch) == <<0, 0, 0, 0, epoch>>

\* np.array([0, 0, 0, epoch, 0])
DefaultAction(epoch) == <<0, 0, 0, epoch, 0>>

\* self.table.size of an (n, 4) array
TableSize(tbl) == Len(tbl) * 4

DueStrict(tbl, epoch) == epoch > tbl[1][1]

DueFlipped(tbl, epoch) == epoch <= tbl[1][1]

\* epoch >= self.table[0, 0]
Due(tbl, epoch) == epoch >= tbl[1][1]

FireActionRowEpoch(tbl, epoch) == <<tbl[1][2], tbl[1][3], tbl[1][4], tbl[1][1], 0>>

\* np.hstack([self.table[0, 1:], epoch, 0])
FireAction(tbl, epoch) == <<tbl[1][2], tbl[1][3], tbl[1][4], epoch, 0>>

DeleteFirstRowKeep(tbl) == tbl

DeleteLastRow(tbl) == SubSeq(tbl, 1, Len(tbl) - 1)

DeleteRowsOfFirstEpoch(tbl) == SelectSeq(tbl, LAMBDA row : row[1] # tbl[1][1])

\* np.delete(self.table, 0, axis=0)
DeleteFirstRow(tbl) == Tail(tbl)

\* TableAgent.get_action: the action returned and the table left behind.
TableAgent_get_action(tbl, epoch) ==
    IF TableSize(tbl) # 0 /\ Due(tbl, epoch)
    THEN [action |-> FireAction(tbl, epoch),
          table  |-> DeleteFirstRow(tbl),
          fired  |-> TRUE]
    ELSE [action |-> DefaultAction(epoch),
          table  |-> tbl,
          fired  |-> FALSE]

\* Agent.get_action
Agent_get_action(epoch) == <<0, 0, 0, epoch, TIME_TO_REQ>>

\* agent.get_action(state) for either class, state["epoch"].mjd2000 = epoch.
get_action(kind, tbl, epoch) ==
    IF kind = "TableAgent"
    THEN TableAgent_get_action(tbl, epoch)
    ELSE [action |-> Agent_get_action(epoch), table |-> tbl, fired |-> FALSE]

\* One get_action call as observed by its caller: the class, the epoch of the
\* state passed in, the table before and after, the action returned, and
\* whether the firing branch ran (the "maneuver!:" print).
Call(kind, epoch, tbl, res) ==
    [kind |-> kind, epoch |-> epoch, before |-> tbl, after |-> res.table,
     action |-> res.action, fired |-> res.fired]

(***************************************************************************)
(* Policy harness: get_action called directly, at arbitrary epochs.        *)
(***************************************************************************)

InitAgent ==
    /\ agentKind \in {"TableAgent", "Agent"}
    /\ table0 \in (IF agentKind = "TableAgent" THEN Tables(MaxRows) ELSE {<<>>})
    /\ table = table0
    /\ hist = <<>>

SimIdle ==
    /\ start_time = 0
    /\ end_time = 0
    /\ curr_time = 0
    /\ step = 0
    /\ iteration = 0
    /\ pc = "idle"
    /\ next_action = 0
    /\ fuel = 0
    /\ err = "none"
    /\ propagated = 0
    /\ logged = 0
    /\ warnings = 0
    /\ iterCalls = <<>>
    /\ gate = [curr |-> 0, next |-> 0]
    /\ update_r_p_step = <<>>
    /\ visualize = FALSE
    /\ time_arr = <<>>
    /\ prob_arr = <<>>
    /\ fuel_cons_arr = <<>>
    /\ reward_arr = <<>>
    /\ r = <<>>
    /\ result = <<>>
    /\ runs = 0
    /\ acted = <<>>
    /\ lastWarning = <<>>
    /\ lastLog = <<>>
    /\ posLogs = 0

InitPolicy == InitAgent /\ SimIdle

TableCall(epoch) ==
    /\ pc = "idle"
    /\ agentKind = "TableAgent"
    /\ Len(hist) < MaxCalls
    /\ LET res == TableAgent_get_action(table, epoch) IN
        /\ table' = res.table
        /\ hist' = Append(hist, Call(agentKind, epoch, table, res))
    /\ UNCHANGED <<agentKind, table0>>
    /\ UNCHANGED simVars

AgentCall(epoch) ==
    /\ pc = "idle"
    /\ agentKind = "Agent"
    /\ Len(hist) < MaxCalls
    /\ LET res == get_action(agentKind, table, epoch) IN
        /\ table' = res.table
        /\ hist' = Append(hist, Call(agentKind, epoch, table, res))
    /\ UNCHANGED <<agentKind, table0>>
    /\ UNCHANGED simVars

NextPolicy ==
    \/ \E epoch \in Epochs : TableCall(epoch)
    \/ \E epoch \in Epochs : AgentCall(epoch)

SpecPolicy == InitPolicy /\ [][NextPolicy]_vars

(***************************************************************************)
(* Replay of a one-row schedule around epoch 6600.  Epochs are in ticks of *)
(* 0.0001 day here: 5999.9, 6600.0 and 6600.0001 mjd2000.                  *)
(***************************************************************************)

ExampleEpochs == {59999000, 66000000, 66000001}

\* Tables of at most one row (epoch, 1.0, 0.0, 0.0).
ExampleTables == {<<>>} \cup { <<<<e, 1, 0, 0>>>> : e \in ExampleEpochs }

InitReplayExample ==
    /\ agentKind = "TableAgent"
    /\ table0 \in ExampleTables
    /\ table = table0
    /\ hist = <<>>
    /\ SimIdle

NextReplayExample == \E epoch \in ExampleEpochs : TableCall(epoch)

SpecReplayExample == InitReplayExample /\ [][NextReplayExample]_vars

(***************************************************************************)
(* Environment port, as the simulation loop uses it.  The environment class *)
(* is not part of the sources at hand; it is modelled from its contract:   *)
(* act either accepts the action (fuel reduced, next poll epoch set from   *)
(* time_to_req) or rejects it (state unchanged, reason returned).          *)
(***************************************************************************)

InitialFuels == {1, 2, 6}

\* Fuel an action costs.
Cost(action) == Abs(action[1]) + Abs(action[2]) + Abs(action[3])

\* env.act(action) at environment epoch `epoch`.
env_act(action, fl, next, epoch) ==
    IF Cost(action) > fl
    THEN [err |-> "fuel budget exceeded", fuel |-> fl, next_action |-> next]
    ELSE [err |-> "", fuel |-> fl - Cost(action),
          next_action |-> epoch + action[5]]

(***************************************************************************)
(* src/space_navigator/simulator/simulator.py                              *)
(***************************************************************************)

Steps == (0 - 1)..MaxStep

\* Iterations after which the model stops following a loop that never ends;
\* a session with step > 0 and epochs in 0..MaxEpoch ends before it.
IterCap == MaxEpoch + 3

LoopCondStrict(curr, end) == curr < end

\* while self.curr_time.mjd2000 <= self.end_time.mjd2000
LoopCond(curr, end) == curr <= end

ActionDueFlipped(curr, next) == curr <= next

ActionDueStrict(curr, next) == curr > next

\* if self.curr_time.mjd2000 >= self.env.get_next_action().mjd2000
ActionDue(curr, next) == curr >= next

AdvanceTwice(curr, stp) == curr + stp + stp

\* pk.epoch(self.curr_time.mjd2000 + step, "mjd2000")
Advance(curr, stp) == curr + stp

AfterActAbort(e) == IF e # "" THEN "aborted" ELSE "loop"

\* if err: self.log_bad_action(err, action) -- then the iteration goes on.
AfterAct(e) == "loop"

\* The environment's value of `what` (reward, total_collision_probability,
\* fuel consumption) when its state is `fl`: a function of that state.
EnvReading(what, fl) == <<what, fl>>

\* iteration % self.update_r_p_step raises for None (TypeError) and for 0
\* (ZeroDivisionError).
ModuloRaises(upd) == upd = <<>> \/ upd[1] = 0

\* iteration % self.update_r_p_step == 0
SampleDue(iter, upd) == iter % upd[1] = 0

\* The calls of lines 183-190, made when the action is due.
PollCalls(rejected) ==
    <<"get_state", "get_action", "get_reward", "act">>
    \o (IF rejected THEN <<"log_bad_action">> ELSE <<>>)
    \o <<"log_reward_action">>

\* The calls of lines 192-194.
TelemetryCalls ==
    <<"log_iteration", "log_protected_position", "log_debris_positions">>

IterationCallsLogFirst(due, rejected, raises) ==
    <<"propagate_forward", "get_next_action">>
    \o TelemetryCalls
    \o (IF due THEN PollCalls(rejected) ELSE <<>>)
    \o (IF raises THEN <<>> ELSE <<"pk.epoch">>)

\* The environment, policy, logging and clock calls of one pass through the
\* loop body, in program order (the plotting calls are left out).
IterationCalls(due, rejected, raises) ==
    <<"propagate_forward", "get_next_action">>
    \o (IF due THEN PollCalls(rejected) ELSE <<>>)
    \o TelemetryCalls
    \o (IF raises THEN <<>> ELSE <<"pk.epoch">>)

log_bad_actionShifted(message, action) ==
    [dVx |-> action[2], dVy |-> action[3], dVz |-> action[4],
     message |-> message]

\* Simulator.log_bad_action: the fields of the warning.
log_bad_action(message, action) ==
    [dVx |-> action[1], dVy |-> action[2], dVz |-> action[3],
     message |-> message]

\* Simulator.log_iteration: the fields of the entry.
log_iteration(iter, epoch, fl) ==
    [index |-> iter, epoch |-> epoch,
     prob |-> EnvReading("total_collision_probability", fl)]

ReturnValueLastCaptured(captured, fl) == captured

\* return self.env.get_reward()
ReturnValue(captured, fl) == EnvReading("reward", fl)

\* Simulator.__init__ on an agent of one of `kinds` (a TableAgent holding one
\* of `tables`) and an environment with start_time in `starts`, end_time in
\* `ends` and first poll epoch in `nexts`, with update_r_p_step in `upds`.
InitSimulator(upds, tables, kinds, starts, ends, nexts) ==
    /\ agentKind \in kinds
    /\ table0 \in (IF agentKind = "TableAgent" THEN tables ELSE {<<>>})
    /\ table = table0
    /\ hist = <<>>
    /\ start_time \in starts
    /\ end_time \in ends
    /\ curr_time = start_time
    /\ step = 0
    /\ iteration = 0
    /\ pc = "constructed"
    /\ next_action \in nexts
    /\ fuel \in InitialFuels
    /\ err = ""
    /\ propagated = 0
    /\ logged = 0
    /\ warnings = 0
    /\ iterCalls = <<>>
    /\ gate = [curr |-> 0, next |-> 0]
    /\ update_r_p_step \in upds
    /\ visualize = FALSE
    /\ time_arr = <<>>
    /\ prob_arr = <<>>
    /\ fuel_cons_arr = <<>>
    /\ reward_arr = <<>>
    /\ r = <<>>
    /\ result = <<>>
    /\ runs = 0
    /\ acted = <<>>
    /\ lastWarning = <<>>
    /\ lastLog = <<>>
    /\ posLogs = 0

\* Simulator.__init__ with the default update_r_p_step = None.
InitRun ==
    InitSimulator({<<>>}, Tables(MaxRunRows), {"TableAgent", "Agent"},
                  Epochs, Epochs, Epochs)

\* Simulator.run(step, visualize) called in position `from`: entry, up to the
\* loop head.
RunEnterWith(from, stp, vis) ==
    /\ pc = from
    /\ step' = stp
    /\ visualize' = vis
    /\ iteration' = 0
    /\ runs' = runs + 1
    /\ IF vis
       THEN /\ time_arr' = <<curr_time>>
            /\ prob_arr' = <<EnvReading("total_collision_probability", fuel)>>
            /\ fuel_cons_arr' = <<EnvReading("fuel_consumption", fuel)>>
            /\ reward_arr' = <<EnvReading("reward", fuel)>>
       ELSE UNCHANGED seriesVars
    /\ pc' = "loop"
    /\ UNCHANGED agentVars
    /\ UNCHANGED <<start_time, end_time, curr_time, next_action, fuel, err,
                   propagated, logged, warnings, iterCalls, gate,
                   update_r_p_step, r, result, acted, lastWarning, lastLog,
                   posLogs>>

\* Simulator.run(step): first call on a Simulator, without visualization.
RunEnter == \E stp \in Steps : RunEnterWith("constructed", stp, FALSE)

\* One pass through the body of the while loop of Simulator.run.
RunIteration ==
    /\ pc = "loop"
    /\ LoopCond(curr_time, end_time)
    /\ (step > 0 \/ iteration < IterCap)
    /\ propagated' = propagated + 1
    /\ gate' = [curr |-> curr_time, next |-> next_action]
    /\ LET due == ActionDue(curr_time, next_action)
           res == get_action(agentKind, table, curr_time)
           out == env_act(res.action, fuel, next_action, curr_time)
           rejected == due /\ out.err # ""
           fuelNow == IF due THEN out.fuel ELSE fuel
           raises == visualize /\ ModuloRaises(update_r_p_step)
       IN
        /\ IF due
           THEN /\ table' = res.table
                /\ hist' = Append(hist, Call(agentKind, curr_time, table, res))
                /\ acted' = res.action
                /\ fuel' = out.fuel
                /\ next_action' = out.next_action
                /\ err' = out.err
                /\ warnings' = warnings + (IF out.err # "" THEN 1 ELSE 0)
                /\ lastWarning' = (IF out.err # ""
                                     THEN log_bad_action(out.err, res.action)
                                     ELSE lastWarning)
           ELSE /\ UNCHANGED <<table, hist, acted, fuel, next_action,
                               warnings, lastWarning>>
                /\ err' = ""
        /\ iterCalls' = IterationCalls(due, rejected, raises)
        /\ logged' = logged + 1
        /\ lastLog' = log_iteration(iteration, curr_time, fuelNow)
        /\ posLogs' = posLogs + 1
        /\ r' = (IF visualize THEN EnvReading("reward", fuelNow)
                 ELSE IF due THEN EnvReading("reward", fuel)
                 ELSE r)
        /\ IF visualize /\ ~raises /\ SampleDue(iteration, update_r_p_step)
           THEN /\ time_arr' = Append(time_arr, curr_time)
                /\ prob_arr' = Append(prob_arr,
                        EnvReading("total_collision_probability", fuelNow))
                /\ fuel_cons_arr' = Append(fuel_cons_arr,
                        EnvReading("fuel_consumption", fuelNow))
                /\ reward_arr' = Append(reward_arr,
                        EnvReading("reward", fuelNow))
           ELSE UNCHANGED seriesVars
        /\ IF raises
           THEN /\ pc' = "raised"
                /\ UNCHANGED <<curr_time, iteration>>
           ELSE /\ pc' = (IF due THEN AfterAct(out.err) ELSE pc)
                /\ curr_time' = Advance(curr_time, step)
                /\ iteration' = iteration + 1
    /\ UNCHANGED <<agentKind, table0, start_time, end_time, step,
                   update_r_p_step, visualize, result, runs>>

\* Simulator.run: the loop condition fails; final position log and return.
RunExit ==
    /\ pc = "loop"
    /\ ~LoopCond(curr_time, end_time)
    /\ pc' = "returned"
    /\ posLogs' = posLogs + 1
    /\ result' = ReturnValue(r, fuel)
    /\ UNCHANGED agentVars
    /\ UNCHANGED seriesVars
    /\ UNCHANGED <<start_time, end_time, curr_time, step, iteration,
                   next_action, fuel, err, propagated, logged, warnings,
                   iterCalls, gate, update_r_p_step, visualize, r, runs,
                   acted, lastWarning, lastLog>>

NextRun == RunEnter \/ RunIteration \/ RunExit

SpecRun == InitRun /\ [][NextRun]_vars

\* The values the caller may pass to Simulator.__init__ as update_r_p_step:
\* None (the default) or an integer.
UpdateSteps == {<<>>} \cup {<<n>> : n \in 0..MaxUpdateStep}

\* Simulator.__init__ with any update_r_p_step.
InitVisualize ==
    InitSimulator(UpdateSteps, Tables(MaxRunRows), {"TableAgent"},
                  Epochs, Epochs, Epochs)

\* Simulator.run(step, visualize=True): first call on a Simulator.
RunEnterVisualize == \E stp \in Steps : RunEnterWith("constructed", stp, TRUE)

NextVisualize == RunEnter \/ RunEnterVisualize \/ RunIteration \/ RunExit

SpecVisualize == InitVisualize /\ [][NextVisualize]_vars

RunAgainReset ==
    /\ pc = "returned"
    /\ runs < MaxRuns
    /\ \E stp \in Steps : step' = stp
    /\ curr_time' = start_time
    /\ iteration' = 0
    /\ runs' = runs + 1
    /\ pc' = "loop"
    /\ UNCHANGED agentVars
    /\ UNCHANGED seriesVars
    /\ UNCHANGED <<start_time, end_time, next_action, fuel, err, propagated,
                   logged, warnings, iterCalls, gate, update_r_p_step,
                   visualize, r, result, acted, lastWarning, lastLog,
                   posLogs>>

\* Simulator.run(step) called again on a Simulator whose run has returned:
\* self.curr_time is where the earlier run left it.
RunAgain ==
    /\ runs < MaxRuns
    /\ \E stp \in Steps : RunEnterWith("returned", stp, FALSE)

NextRerun == RunEnter \/ RunIteration \/ RunExit \/ RunAgain

SpecRerun == InitRun /\ [][NextRerun]_vars

(***************************************************************************)
(* The session of the training scripts: START_TIME = 6599.95, END_TIME =   *)
(* 6600.05, SIMULATION_STEP = 0.0001, in ticks of 0.0001 day, replaying a  *)
(* schedule of at most one row.                                            *)
(***************************************************************************)

START_TIME == 65999500
SIMULATION_STEP == 1
END_TIME == 66000500

InitCollisionSession ==
    InitSimulator({<<>>}, ExampleTables, {"TableAgent"},
                  {START_TIME}, {END_TIME}, {START_TIME})

SpecCollisionSession == InitCollisionSession /\ [][NextRun]_vars

(***************************************************************************)
(* Properties of the policy.                                               *)
(***************************************************************************)

Deltas(v) == <<v[1], v[2], v[3]>>
RowOf(row) == <<row[2], row[3], row[4]>>

\* Number of firing calls among the first n calls.
NumFired(n) == Cardinality({i \in 1..n : hist[i].fired})

IsSuffix(s, t) ==
    /\ Len(s) <= Len(t)
    /\ s = SubSeq(t, Len(t) - Len(s) + 1, Len(t))

\* C2: over any sequence of TableAgent.get_action calls at arbitrary epochs,
\* the k-th firing call returns the k-th row of the loaded table, so every
\* row is fired in at most one call; the table is always what is left of
\* the loaded table behind the fired rows, a removed row never comes back
\* and the table never grows.
C2_AtMostOncePerRow ==
    /\ [](agentKind = "TableAgent" =>
            /\ table = SubSeq(table0, NumFired(Len(hist)) + 1, Len(table0))
            /\ NumFired(Len(hist)) + Len(table) = Len(table0)
            /\ \A i \in 1..Len(hist) : hist[i].fired =>
                  Deltas(hist[i].action) = RowOf(table0[NumFired(i)]))
    /\ [][IsSuffix(table', table) /\ Len(table') <= Len(table)]_vars

C2_Witness ==
    /\ agentKind = "TableAgent"
    /\ Len(hist) = 3
    /\ NumFired(3) = 1
    /\ hist[1].fired
    /\ hist[2].epoch = hist[1].epoch
    /\ Len(table) = 1

\* The fire at call i at epoch e is followed by two calls at the same epoch.
FireThenTwoAt(i) ==
    /\ i + 2 <= Len(hist)
    /\ hist[i].kind = "TableAgent"
    /\ hist[i].fired
    /\ hist[i + 1].epoch = hist[i].epoch
    /\ hist[i + 2].epoch = hist[i].epoch

BothNoOp(i) ==
    /\ ~hist[i + 1].fired
    /\ ~hist[i + 2].fired
    /\ hist[i + 1].action = <<0, 0, 0, hist[i].epoch, 0>>
    /\ hist[i + 2].action = <<0, 0, 0, hist[i].epoch, 0>>

\* C3 as stated: after a call fires a row at epoch e, two further calls at
\* the same epoch e both return the no-op action, for every table.
C3_Original ==
    \A i \in 1..Len(hist) : FireThenTwoAt(i) => BothNoOp(i)

\* No row is left due at the epoch of the firing call i: the row that follows
\* the fired one in the loaded table does not exist or is later than e.
NoneLeftDue(i) ==
    LET k == NumFired(i) IN
        k < Len(table0) => table0[k + 1][1] > hist[i].epoch

\* C3 (amended): after a call fires a row at epoch e, if the table is then
\* empty or its first row is later than e, two further calls at the same
\* epoch e both return the no-op action.
C3_NoOpAfterFire ==
    \A i \in 1..Len(hist) : FireThenTwoAt(i) /\ NoneLeftDue(i) => BothNoOp(i)

C3_Witness ==
    /\ FireThenTwoAt(1)
    /\ NoneLeftDue(1)
    /\ Len(table) > 0

\* C4 as stated: every action with zero deltas returned by a get_action of
\* src/agent.py without a maneuver being scheduled, by TableAgent or by
\* Agent, has time_to_next_request = 0.
C4_Original ==
    \A i \in 1..Len(hist) : ~hist[i].fired =>
        /\ Deltas(hist[i].action) = <<0, 0, 0>>
        /\ hist[i].action[5] = 0

\* C4 (amended): every action returned without a maneuver being scheduled has
\* zero deltas and carries the epoch of the state; its time_to_next_request
\* is 0 when TableAgent returns it and 0.001 when Agent returns it.
C4_NoOpTimeToRequest ==
    \A i \in 1..Len(hist) : ~hist[i].fired =>
        /\ Deltas(hist[i].action) = <<0, 0, 0>>
        /\ hist[i].action[4] = hist[i].epoch
        /\ hist[i].action[5] =
              (IF hist[i].kind = "TableAgent" THEN 0 ELSE TIME_TO_REQ)

C4_Witness ==
    /\ Len(hist) = 2
    /\ hist[1].kind = "TableAgent"
    /\ ~hist[1].fired
    /\ hist[1].before # <<>>
    /\ hist[1].epoch > 0
    /\ ~hist[2].fired

\* Rows of tbl whose epoch is e, as indices in table order.
RowsAt(tbl, e) == {j \in 1..Len(tbl) : tbl[j][1] = e}

Min(S) == CHOOSE x \in S : \A y \in S : x <= y

\* C9 as stated: if two or more rows of the table share the epoch e, each
\* call at epoch e fires exactly one of them, the first in table order, and
\* no call removes more than one row.
C9_Original ==
    \A i \in 1..Len(hist) :
        LET b == hist[i].before
            a == hist[i].after
            e == hist[i].epoch
        IN  hist[i].kind = "TableAgent" =>
              /\ Len(b) - Len(a) \in {0, 1}
              /\ Cardinality(RowsAt(b, e)) >= 2 =>
                    /\ hist[i].fired
                    /\ Deltas(hist[i].action) = RowOf(b[Min(RowsAt(b, e))])
                    /\ Len(a) = Len(b) - 1

\* The first two rows of tbl both have epoch e.
HeadShares(tbl, e) ==
    /\ Len(tbl) >= 2
    /\ tbl[1][1] = e
    /\ tbl[2][1] = e

\* C9 (amended): if the first two or more rows of the table share the epoch
\* e, a call at epoch e fires the first of them and removes it alone, and
\* the next call at epoch e fires the second and removes it alone; no call
\* ever removes or fires more than one row.
C9_OnePerCall ==
    \A i \in 1..Len(hist) :
        LET b == hist[i].before
            a == hist[i].after
            e == hist[i].epoch
        IN  hist[i].kind = "TableAgent" =>
              /\ Len(b) - Len(a) \in {0, 1}
              /\ Len(b) - Len(a) = (IF hist[i].fired THEN 1 ELSE 0)
              /\ HeadShares(b, e) =>
                    /\ hist[i].fired
                    /\ Deltas(hist[i].action) = RowOf(b[1])
                    /\ a = Tail(b)
                    /\ (i < Len(hist) /\ hist[i + 1].epoch = e) =>
                          /\ hist[i + 1].fired
                          /\ Deltas(hist[i + 1].action) = RowOf(b[2])
                          /\ hist[i + 1].after = Tail(Tail(b))

C9_Witness ==
    /\ Len(hist) >= 2
    /\ hist[1].kind = "TableAgent"
    /\ Len(table0) = 3
    /\ HeadShares(hist[1].before, hist[1].epoch)
    /\ hist[2].epoch = hist[1].epoch
    /\ Len(hist[2].after) = 1

\* C10: a TableAgent.get_action call on a non-empty table whose first row
\* has epoch <= state.epoch fires: the action returned has that row's dVx,
\* dVy, dVz, carries state.epoch (not the row's epoch) as maneuver epoch,
\* and has time_to_next_request = 0.
C10_FiredAction ==
    \A i \in 1..Len(hist) :
        LET b == hist[i].before
            e == hist[i].epoch
        IN  (hist[i].kind = "TableAgent" /\ Len(b) > 0 /\ e >= b[1][1]) =>
              /\ hist[i].fired
              /\ hist[i].action = <<b[1][2], b[1][3], b[1][4], e, 0>>

C10_Witness ==
    /\ Len(hist) >= 1
    /\ hist[1].kind = "TableAgent"
    /\ hist[1].fired
    /\ hist[1].epoch > hist[1].before[1][1]
    /\ hist[1].action[4] = hist[1].epoch

(***************************************************************************)
(* Properties of the simulation loop.                                      *)
(***************************************************************************)

Range(f) == {f[i] : i \in DOMAIN f}

StrictlyIncreasing(tbl) ==
    \A j \in 1..Len(tbl) - 1 : tbl[j][1] < tbl[j + 1][1]

AllNoOpElsewhere ==
    \A i \in 1..Len(hist) : ~hist[i].fired =>
        hist[i].action = <<0, 0, 0, hist[i].epoch, 0>>

\* C1 as stated: for a table of N rows with strictly increasing epochs, a
\* session (here one with start_epoch <= end_epoch and step > 0 that polls
\* the policy in every iteration) whose current_epoch has come to exceed
\* every row's epoch has fired exactly N times and returned the no-op action
\* on every other call.
C1_Original ==
    (/\ pc = "returned"
     /\ agentKind = "TableAgent"
     /\ step > 0
     /\ start_time <= end_time
     /\ Len(hist) = iteration
     /\ StrictlyIncreasing(table0)
     /\ \A k \in 1..Len(table0) : curr_time > table0[k][1])
    => /\ NumFired(Len(hist)) = Len(table0)
       /\ AllNoOpElsewhere

\* Number of polls made at an epoch >= e.
PollsFrom(e) == Cardinality({i \in 1..Len(hist) : hist[i].epoch >= e})

\* For each k, at least N - k + 1 polls were made at or after row k's epoch.
EnoughPolls ==
    \A k \in 1..Len(table0) :
        PollsFrom(table0[k][1]) >= Len(table0) - k + 1

\* C1 (amended): for a table of N rows with strictly increasing epochs and a
\* session with step > 0, the policy fires at most N times and returns the
\* no-op action on every other call; it has fired exactly N times precisely
\* when, for each k, it was polled at least N - k + 1 times at epochs >= the
\* k-th row's epoch (one row at most fires per poll).
C1_FiresEveryRow ==
    (/\ pc \in {"loop", "returned"}
     /\ agentKind = "TableAgent"
     /\ step > 0
     /\ StrictlyIncreasing(table0))
    => /\ NumFired(Len(hist)) <= Len(table0)
       /\ EnoughPolls <=> NumFired(Len(hist)) = Len(table0)
       /\ AllNoOpElsewhere

C1_Witness ==
    /\ pc = "returned"
    /\ agentKind = "TableAgent"
    /\ step > 0
    /\ Len(table0) = 2
    /\ StrictlyIncreasing(table0)
    /\ NumFired(Len(hist)) = 2
    /\ Len(hist) = 3
    /\ ~hist[1].fired

\* C5: an iteration of Simulator.run that finds current_epoch <
\* next_action_epoch at its decision check calls neither agent.get_action
\* nor env.act, and leaves the policy and the environment as they were.
C5_GateSkipsPoll ==
    /\ [](propagated > 0 /\ gate.curr < gate.next =>
            /\ "get_action" \notin Range(iterCalls)
            /\ "act" \notin Range(iterCalls)
            /\ "get_state" \notin Range(iterCalls))
    /\ [][(propagated' = propagated + 1 /\ curr_time < next_action) =>
            /\ hist' = hist
            /\ table' = table
            /\ fuel' = fuel
            /\ next_action' = next_action]_vars

C5_Witness ==
    /\ pc = "returned"
    /\ propagated >= 2
    /\ gate.curr < gate.next
    /\ Len(hist) = 1
    /\ iterCalls[1] = "propagate_forward"

FloorDiv(a, b) == a \div b
CeilDiv(a, b) == (a + b - 1) \div b

ValidSession ==
    /\ pc \in {"loop", "returned"}
    /\ step > 0
    /\ start_time <= end_time

\* C6 as stated: with start_epoch <= end_epoch and step > 0, run ends after
\* exactly ceil((end_epoch - start_epoch) / step) + 1 iterations.
C6_Original ==
    (ValidSession /\ pc = "returned") =>
        propagated = CeilDiv(end_time - start_time, step) + 1

\* C6 (amended): with start_epoch <= end_epoch and step > 0, and epoch
\* arithmetic exact, run ends after exactly
\* floor((end_epoch - start_epoch) / step) + 1 iterations, each with one
\* propagate_forward call; until then the loop can always take its next step.
C6_IterationCount ==
    ValidSession =>
        /\ propagated = iteration
        /\ curr_time = start_time + iteration * step
        /\ iteration <= FloorDiv(end_time - start_time, step) + 1
        /\ pc = "loop" => ENABLED (RunIteration \/ RunExit)
        /\ pc = "returned" =>
              propagated = FloorDiv(end_time - start_time, step) + 1

C6_Witness ==
    /\ pc = "returned"
    /\ step = 2
    /\ start_time = 0
    /\ end_time = 1
    /\ propagated = 1

\* C7: when env.act returns a failure, the iteration neither raises nor
\* leaves the loop: fuel is unchanged, one warning is logged, the iteration
\* is logged and the clock advances as usual; and a session ends with the
\* same number of iterations and iteration log entries whatever was rejected.
C7_RejectionRecoverable ==
    /\ [][(propagated' = propagated + 1 /\ err' # "") =>
            /\ fuel' = fuel
            /\ pc' = "loop"
            /\ warnings' = warnings + 1
            /\ logged' = logged + 1
            /\ iteration' = iteration + 1
            /\ curr_time' = curr_time + step]_vars
    /\ []((ValidSession /\ pc = "returned") =>
            /\ iteration = FloorDiv(end_time - start_time, step) + 1
            /\ logged = iteration)

C7_Witness ==
    /\ pc = "returned"
    /\ step > 0
    /\ warnings = 1
    /\ Len(hist) = 2
    /\ hist[1].fired
    /\ hist[2].fired
    /\ fuel = 0

\* C8: a session with a negative step, or with end_epoch < start_epoch,
\* fails before any loop iteration runs: propagate_forward is never called
\* and run does not return normally.
C8_FailFast ==
    ((pc # "constructed" /\ step < 0) \/ end_time < start_time) =>
        /\ propagated = 0
        /\ pc # "returned"

(***************************************************************************)
(* Further properties of the policy.                                       *)
(***************************************************************************)

PolledAt(epochs) ==
    /\ Len(hist) = Len(epochs)
    /\ \A i \in 1..Len(epochs) : hist[i].epoch = epochs[i]

\* C11: a TableAgent holding the single row (6600.0, 1.0, 0.0, 0.0), polled
\* at epochs 5999.9, 6600.0 and 6600.0001 in that order, returns no-op, then
\* the fired action with dVx = 1.0 and dVy = dVz = 0, then no-op.
C11_ReplayExample ==
    (/\ table0 = <<<<66000000, 1, 0, 0>>>>
     /\ PolledAt(<<59999000, 66000000, 66000001>>))
    => /\ <<hist[1].fired, hist[2].fired, hist[3].fired>> = <<FALSE, TRUE, FALSE>>
       /\ hist[1].action = <<0, 0, 0, 59999000, 0>>
       /\ hist[2].action = <<1, 0, 0, 66000000, 0>>
       /\ hist[3].action = <<0, 0, 0, 66000001, 0>>

C11_Witness ==
    /\ table0 = <<<<66000000, 1, 0, 0>>>>
    /\ PolledAt(<<59999000, 66000000, 66000001>>)
    /\ table = <<>>

(***************************************************************************)
(* Further properties of the simulation loop.                              *)
(***************************************************************************)

\* C12: the session with start_epoch = 6599.95, end_epoch = 6600.05 and
\* step = 0.0001, the epochs being exact multiples of 0.0001, performs
\* exactly 1001 loop iterations, each with one propagate_forward call.
C12_CollisionSessionIterations ==
    (/\ start_time = START_TIME
     /\ end_time = END_TIME
     /\ step = SIMULATION_STEP)
    => /\ propagated = iteration
       /\ curr_time = START_TIME + iteration * SIMULATION_STEP
       /\ iteration <= 1001
       /\ pc = "loop" => ENABLED (RunIteration \/ RunExit)
       /\ pc = "returned" => propagated = 1001

C12_Witness ==
    /\ start_time = START_TIME
    /\ end_time = END_TIME
    /\ step = SIMULATION_STEP
    /\ pc = "returned"
    /\ propagated = 1001
    /\ curr_time = END_TIME + SIMULATION_STEP

\* C13: the loop runs its body only while current_epoch <= end_epoch and
\* run returns only once current_epoch > end_epoch; with step > 0 every
\* iteration strictly increases current_epoch; once current_epoch >
\* end_epoch nothing changes it again, no iteration runs, and a further
\* run() call on the same Simulator performs zero iterations.
C13_EndedIsTerminal ==
    /\ [](pc = "returned" => curr_time > end_time)
    /\ [](runs >= 2 => iteration = 0 /\ curr_time > end_time)
    /\ [][propagated' = propagated + 1 =>
            /\ curr_time <= end_time
            /\ step > 0 => curr_time' > curr_time]_vars
    /\ [][curr_time > end_time =>
            /\ curr_time' = curr_time
            /\ propagated' = propagated
            /\ logged' = logged
            /\ hist' = hist
            /\ fuel' = fuel]_vars

C13_Witness ==
    /\ runs = 2
    /\ pc = "returned"
    /\ step > 0
    /\ propagated = 2
    /\ iteration = 0
    /\ start_time < end_time

Count(seq, name) == Cardinality({i \in 1..Len(seq) : seq[i] = name})

Pos(seq, name) == CHOOSE i \in 1..Len(seq) : seq[i] = name

\* The names come in this order in seq (each being present).
InOrder(seq, names) ==
    /\ \A k \in 1..Len(names) : names[k] \in Range(seq)
    /\ \A k \in 1..Len(names) - 1 :
          Pos(seq, names[k]) < Pos(seq, names[k + 1])

\* C14: within every iteration the calls come in the order propagate_forward,
\* get_next_action, then (when the action is due) get_state, get_action and
\* act, then log_iteration and the position logs, then the clock advance,
\* each once; the iteration log carries the epoch before the advance and the
\* collision probability of the environment as env.act left it.
C14_IterationOrder ==
    propagated > 0 =>
        /\ \A name \in Range(iterCalls) : Count(iterCalls, name) = 1
        /\ iterCalls[1] = "propagate_forward"
        /\ iterCalls[2] = "get_next_action"
        /\ iterCalls[Len(iterCalls)] = "pk.epoch"
        /\ InOrder(iterCalls, <<"propagate_forward", "get_next_action",
                                "log_iteration", "log_protected_position",
                                "log_debris_positions", "pk.epoch">>)
        /\ "get_action" \in Range(iterCalls) <=> gate.curr >= gate.next
        /\ "get_action" \in Range(iterCalls) =>
              InOrder(iterCalls, <<"propagate_forward", "get_next_action",
                                  "get_state", "get_action", "act",
                                  "log_iteration", "pk.epoch">>)
        /\ lastLog.epoch = gate.curr
        /\ lastLog.epoch = curr_time - step
        /\ lastLog.prob = EnvReading("total_collision_probability", fuel)

C14_Witness ==
    /\ pc = "loop"
    /\ propagated = 2
    /\ "act" \in Range(iterCalls)
    /\ hist[Len(hist)].fired
    /\ err = ""
    /\ fuel = 0
    /\ step = 1

\* C15: every iteration that finds current_epoch >= next_action_epoch polls
\* the policy exactly once, with the state of current_epoch, and calls
\* env.act exactly once, with the action the policy returned; as long as the
\* policy was never polled, every iteration so far was before
\* next_action_epoch, so the first iteration to reach it polls.
C15_DuePollsOnce ==
    /\ [][(propagated' = propagated + 1 /\ curr_time >= next_action) =>
            /\ Len(hist') = Len(hist) + 1
            /\ hist'[Len(hist')].epoch = curr_time
            /\ acted' = hist'[Len(hist')].action
            /\ Count(iterCalls', "get_action") = 1
            /\ Count(iterCalls', "act") = 1]_vars
    /\ []((pc \in {"loop", "returned"} /\ hist = <<>> /\ iteration > 0) =>
            curr_time - step < next_action)

C15_Witness ==
    /\ pc = "loop"
    /\ step = 1
    /\ propagated = 2
    /\ Len(hist) = 1
    /\ gate.curr = gate.next
    /\ hist[1].epoch = gate.curr
    /\ hist[1].fired
    /\ hist[1].before[1][1] < hist[1].epoch
    /\ acted = hist[1].action

\* C16: an iteration in which env.act rejects the action logs exactly one
\* warning, carrying the action's dVx, dVy, dVz and the environment's
\* reason, and calls env.act once only; a table row fired into the rejected
\* action is removed all the same, and over the session the k-th fire is
\* always the k-th loaded row, so no row is offered a second time.
C16_RejectedActionDropped ==
    /\ [][(propagated' = propagated + 1 /\ err' # "") =>
            /\ warnings' = warnings + 1
            /\ lastWarning' = [dVx |-> acted'[1], dVy |-> acted'[2],
                               dVz |-> acted'[3], message |-> err']
            /\ acted' = hist'[Len(hist')].action
            /\ Count(iterCalls', "act") = 1
            /\ Count(iterCalls', "log_bad_action") = 1
            /\ hist'[Len(hist')].fired => table' = Tail(table)]_vars
    /\ [][(propagated' = propagated + 1 /\ err' = "") =>
            /\ warnings' = warnings
            /\ lastWarning' = lastWarning]_vars
    /\ [](Count(iterCalls, "act") <= 1)
    /\ [](agentKind = "TableAgent" =>
            /\ table = SubSeq(table0, NumFired(Len(hist)) + 1, Len(table0))
            /\ \A i \in 1..Len(hist) : hist[i].fired =>
                  Deltas(hist[i].action) = RowOf(table0[NumFired(i)]))

C16_Witness ==
    /\ pc = "returned"
    /\ warnings = 1
    /\ lastWarning = [dVx |-> 2, dVy |-> 0, dVz |-> 0 - 2,
                      message |-> "fuel budget exceeded"]
    /\ Len(hist) = 3
    /\ hist[2].fired
    /\ ~hist[3].fired
    /\ table = <<>>

\* C17: a TableAgent.get_action call on an empty table, or at an epoch before
\* the first row's, returns the no-op action tagged with state.epoch and
\* leaves the table as it was; any other call fires, removes the first row
\* and leaves the remaining rows as they were, in the same order.
C17_FrameOfGetAction ==
    /\ \A i \in 1..Len(hist) :
          LET b == hist[i].before
              a == hist[i].after
              e == hist[i].epoch
          IN  hist[i].kind = "TableAgent" =>
                IF b = <<>> \/ e < b[1][1]
                THEN /\ ~hist[i].fired
                     /\ a = b
                     /\ hist[i].action = <<0, 0, 0, e, 0>>
                ELSE /\ hist[i].fired
                     /\ Len(a) = Len(b) - 1
                     /\ \A j \in 1..Len(a) : a[j] = b[j + 1]
    /\ \A i \in 1..Len(hist) - 1 : hist[i + 1].before = hist[i].after
    /\ Len(hist) > 0 =>
          /\ hist[1].before = table0
          /\ hist[Len(hist)].after = table

C17_Witness ==
    /\ Len(hist) = 3
    /\ hist[1].kind = "TableAgent"
    /\ Len(table0) = 3
    /\ ~hist[1].fired
    /\ hist[2].fired
    /\ ~hist[3].fired
    /\ table = <<table0[2], table0[3]>>
    /\ table0[2][1] > table0[3][1]

\* C18: every iteration, polled or not, emits exactly one iteration log
\* entry with its index, its epoch and the collision probability, the
\* indices running 0, 1, 2, ...; leaving the loop emits one more
\* protected-position log and no iteration entry, and run returns the
\* environment's reward as it is after the last iteration.
C18_TelemetryAndResult ==
    /\ [][propagated' = propagated + 1 =>
            /\ logged' = logged + 1
            /\ posLogs' = posLogs + 1
            /\ Count(iterCalls', "log_iteration") = 1
            /\ lastLog' = [index |-> logged, epoch |-> curr_time,
                           prob |-> EnvReading("total_collision_probability",
                                               fuel')]]_vars
    /\ [][(pc = "loop" /\ pc' = "returned") =>
            /\ posLogs' = posLogs + 1
            /\ logged' = logged
            /\ lastLog' = lastLog]_vars
    /\ [](/\ logged = iteration
          /\ logged > 0 => lastLog.index = logged - 1)
    /\ [](pc = "returned" =>
            /\ posLogs = iteration + 1
            /\ result = EnvReading("reward", fuel))

C18_Witness ==
    /\ pc = "returned"
    /\ logged = 3
    /\ lastLog.index = 2
    /\ Len(hist) = 1
    /\ hist[1].fired
    /\ err = ""
    /\ result # r
    /\ posLogs = 4

\* The number of indices below iter that are multiples of upd[1].
Samples(iter, upd) == Cardinality({i \in 0..(iter - 1) : i % upd[1] = 0})

SeriesInStep ==
    (visualize /\ pc \in {"loop", "returned"}
               /\ ~ModuloRaises(update_r_p_step)) =>
        /\ Len(time_arr) = 1 + Samples(iteration, update_r_p_step)
        /\ Len(prob_arr) = Len(time_arr)
        /\ Len(fuel_cons_arr) = Len(time_arr)
        /\ Len(reward_arr) = Len(time_arr)

\* C19: for every update_r_p_step, None included, a run with visualize=True
\* makes the same calls and the same number of iterations as a run with
\* visualize=False, so it is never cut short and returns after the same
\* iteration count; the four series have equal length, one element at
\* entry and one more for each iteration whose index is a multiple of
\* update_r_p_step.
C19_VisualizeTransparent ==
    /\ (step > 0 /\ start_time <= end_time) => pc # "raised"
    /\ (ValidSession /\ pc = "returned") =>
            iteration = FloorDiv(end_time - start_time, step) + 1
    /\ SeriesInStep

AtLoopHead == pc = "loop" /\ LoopCond(curr_time, end_time)

EpochBounds(forward) ==
    /\ (AtLoopHead /\ forward) =>
            /\ curr_time = start_time + iteration * step
            /\ start_time <= curr_time
            /\ curr_time <= end_time
    /\ (pc = "returned" /\ step > 0 /\ start_time <= end_time) =>
            /\ end_time < curr_time
            /\ curr_time <= end_time + step

\* The epoch bounds in the sessions whose step is not negative.
EpochBoundsForwardStep == EpochBounds(step >= 0)

\* C20: at the head of every iteration of run, curr_time is
\* start_time + iteration * step and lies between start_time and end_time;
\* when the loop exits with step > 0 and start_time <= end_time, curr_time
\* is after end_time and at most end_time + step.
C20_EpochInvariant == EpochBounds(TRUE)

====
